---- MODULE Spec2Model ----
(***************************************************************************)
(* A model of src/src/main.rs (fizyk20/libration): the Libration struct,   *)
(* its two event handlers (Application::update for Message::Tick and       *)
(* Program::update for keyboard events) and the orbital kinematics of      *)
(* Libration::moon_pos.                                                     *)
(*                                                                         *)
(* Number representation.                                                  *)
(*   eccentricity  in hundredths: the code's steps (0.1) and clamps (0.99, *)
(*                 0.0) are multiples of 0.01, and the f64 rounding error  *)
(*                 of a chain of +-0.1 (below 1e-15 per step) never decides*)
(*                 a comparison against 0.99 or 0.0.                       *)
(*   time          the phase, as a numerator over One = 1000 * period:     *)
(*                 a Tick adds as_millis() / 1000.0 / period, which is     *)
(*                 millis / One.                                           *)
(*   now, last_tick  Instants, in clock units of 1/ClockPerMs millisecond: *)
(*                 Duration::as_millis truncates to whole milliseconds.    *)
(*   scale         the f64 itself, mantissa and exponent, with the rounding *)
(*                 of f64 multiplication and division.                     *)
(***************************************************************************)
EXTENDS Integers, Naturals, Sequences, FiniteSets, TLC

\* ------------------------------------------------------------------ bounds
\* Clock units per millisecond (an Instant is finer than a millisecond).
ClockPerMs == 2
\* The wall clock stops advancing at MaxClock clock units.
MaxClock == 40001
\* Z presses below, and X presses above, the initial scale that are followed.
MaxZoom == 1
\* Longest run of successive E (or Q) presses that is counted.
MaxStreak == 20
\* Executions of the Newton loop's body that are followed.
MaxIter == 30
\* Steps of the grid of phases at which moon_pos is called.
NumPhases == 16
\* The subnormal scales, in units of 2^-1074, at which X presses are
\* followed after a run of Z presses.
MaxTiny == 40

\* --------------------------------------------------------------- variables
VARIABLES
    playing,        \* Libration.playing
    scale,          \* Libration.scale, an f64 as [inf, exp, man]
    time,           \* Libration.time (the phase), numerator over One
    period,         \* Libration.period, seconds
    eccentricity,   \* Libration.eccentricity, hundredths
    last_tick,      \* Libration.last_tick: Option<Instant>
    center_moon,    \* Libration.center_moon
    now,            \* the wall clock read by Instant::now()
    ticksInRun,     \* history: Tick messages handled since the last Space press (capped at 2)
    dropped,        \* history: clock units between the baselines of the Playing run that its Ticks did not add to time
    streak,         \* history: the current run of successive E or Q presses
    pc,             \* moon_pos: "idle", "loop" (at the while test), "done"
    mean_anomaly,   \* moon_pos: mean_anomaly
    ecc_anom,       \* moon_pos: ecc_anom
    delta,          \* moon_pos: f(ecc_anom) / df(ecc_anom), the value the while test reads
    iterations,     \* history: executions of the while body
    true_anom,      \* moon_pos: true_anom
    r_den,          \* r: the denominator 1.0 + eccentricity * phi.cos()
    r,              \* moon_pos: r
    sweep,          \* draw_moon_orbit: "idle", "loop" (at the while test), "done"
    phi,            \* draw_moon_orbit: phi
    old_point,      \* draw_moon_orbit: old_point, as the (r, phi) it is made of
    new_point,      \* draw_moon_orbit: new_point, as the (r, phi) it is made of
    segments        \* history: segments stroked so far

libration == <<playing, scale, time, period, eccentricity, last_tick, center_moon>>
events == <<now, ticksInRun, dropped, streak>>
kin == <<pc, mean_anomaly, ecc_anom, delta, iterations, true_anom, r_den, r>>
orbit == <<sweep, phi, old_point, new_point, segments>>
vars == <<playing, scale, time, period, eccentricity, last_tick, center_moon,
          now, ticksInRun, dropped, streak,
          pc, mean_anomaly, ecc_anom, delta, iterations, true_anom, r_den, r,
          sweep, phi, old_point, new_point, segments>>

\* Option<Instant>
None == [some |-> FALSE, at |-> 0]
Some(t) == [some |-> TRUE, at |-> t]

\* Phase units per full cycle: time is held as time / One.
One == 1000 * period

\* Elapsed clock durations between two events: half a period, the same and a
\* fraction of a millisecond, one period, two periods and a quarter.
DtSet == {4000 * ClockPerMs, 4000 * ClockPerMs + 1, 8000 * ClockPerMs, 18000 * ClockPerMs}

\* ------------------------------------------------------------- f64 values
\* An f64 of the kinematics is held as a signed fixed-point number with 16
\* decimal places (about the 53 bits of an f64 mantissa for values of order 1):
\* [neg |-> sign, mag |-> limbs], the magnitude as NL limbs in base B, least
\* significant first, the first FL limbs being the fraction.  TLC's integers
\* are 32 bits wide, hence the limbs.  Every operation truncates toward zero.
B == 10000
FL == 4
NL == 6

Min(a, b) == IF a < b THEN a ELSE b
Max(a, b) == IF a > b THEN a ELSE b

\* The magnitude 0, and the largest magnitude: what a result beyond the range
\* saturates to (the model's f64::INFINITY).
ZeroMag == <<0, 0, 0, 0, 0, 0>>
MagInf == <<9999, 9999, 9999, 9999, 9999, 9999>>

\* Carry propagation over column values, least significant first; one more
\* limb than columns.
RECURSIVE Norm(_, _, _)
Norm(cols, i, carry) ==
    IF i > Len(cols) THEN <<carry>>
    ELSE <<(cols[i] + carry) % B>> \o Norm(cols, i + 1, (cols[i] + carry) \div B)

\* -1, 0, 1 as magnitude a is below, equal to, above magnitude b, over the
\* limbs i, i-1, ..., 1.
RECURSIVE MagCmp(_, _, _)
MagCmp(a, b, i) ==
    IF i = 0 THEN 0
    ELSE IF a[i] < b[i] THEN -1
    ELSE IF a[i] > b[i] THEN 1
    ELSE MagCmp(a, b, i - 1)

\* The NL limbs of w from limb `from` on, saturated when w holds more.
Fit(w, from) ==
    IF \E i \in (from + NL)..Len(w) : w[i] # 0 THEN MagInf
    ELSE SubSeq(w, from, from + NL - 1)

MagAdd(a, b) == Fit(Norm([i \in 1..NL |-> a[i] + b[i]], 1, 0), 1)

\* a - b for a >= b, limb by limb with the borrow br.
RECURSIVE MagSub(_, _, _, _)
MagSub(a, b, i, br) ==
    IF i > Len(a) THEN <<>>
    ELSE IF a[i] - b[i] - br < 0
         THEN <<a[i] - b[i] - br + B>> \o MagSub(a, b, i + 1, 1)
         ELSE <<a[i] - b[i] - br>> \o MagSub(a, b, i + 1, 0)

\* a * k for a small k (k * B below 2^31); one more limb than a.
MagMulSmall(a, k) == Norm([i \in 1..Len(a) |-> a[i] * k], 1, 0)

\* a / k for a small k, truncated.
RECURSIVE MagDivSmall(_, _, _, _)
MagDivSmall(a, k, i, rem) ==
    IF i = 0 THEN <<>>
    ELSE MagDivSmall(a, k, i - 1, (rem * B + a[i]) % k) \o <<(rem * B + a[i]) \div k>>

\* Column k of the product of two NL-limb magnitudes.
RECURSIVE ColSum(_, _, _, _)
ColSum(a, b, k, i) ==
    IF i > Min(NL, k) THEN 0
    ELSE a[i] * b[k + 1 - i] + ColSum(a, b, k, i + 1)

\* a * b, the FL lowest limbs of the exact product dropped.
MagMul(a, b) ==
    Fit(Norm([k \in 1..(2 * NL - 1) |-> ColSum(a, b, k, Max(1, k + 1 - NL))], 1, 0),
        FL + 1)

\* The highest non-zero limb of b # 0, at or below limb i.
RECURSIVE TopLimb(_, _)
TopLimb(b, i) == IF b[i] # 0 THEN i ELSE TopLimb(b, i - 1)

\* The largest q <= guess with q * b <= cur.
RECURSIVE QDigit(_, _, _)
QDigit(cur, b, guess) ==
    IF MagCmp(MagMulSmall(b, guess), cur, NL + 2) <= 0 THEN guess
    ELSE QDigit(cur, b, guess - 1)

\* The remainder that follows the quotient digit q.
DivRem(cur, b, q) == SubSeq(MagSub(cur, MagMulSmall(b, q), 1, 0), 1, NL + 1)

RECURSIVE LongDiv(_, _, _, _, _)
\* One digit of the long division: cur is the running remainder with the next
\* limb of the dividend appended, q the digit.
DivStep(d, b, n, i, cur, q) == LongDiv(d, b, n, i - 1, DivRem(cur, b, q)) \o <<q>>

DivDigit(d, b, n, i, cur) ==
    DivStep(d, b, n, i, cur, QDigit(cur, b, Min(B - 1, (cur[n + 1] * B + cur[n]) \div b[n])))

\* Long division of the limbs d[i], d[i-1], ..., d[1] by b, whose highest limb
\* b[n] is at least B/2; rem is the running remainder, the quotient's digit is
\* estimated from the two highest limbs.  The quotient's limbs, least
\* significant first.
LongDiv(d, b, n, i, rem) ==
    IF i = 0 THEN <<>> ELSE DivDigit(d, b, n, i, <<d[i]>> \o rem)

\* Dividend and divisor scaled by s so that the divisor's highest limb is at
\* least B/2.
MagDivScaled(a, b, n, s) ==
    Fit(LongDiv(MagMulSmall(<<0, 0, 0, 0>> \o a, s), MagMulSmall(b, s), n, NL + FL + 1,
                <<0, 0, 0, 0, 0, 0, 0>>), 1)

MagDivTop(a, b, n) == MagDivScaled(a, b, n, B \div (b[n] + 1))

\* a / b: the exact quotient scaled by B^FL, truncated; a division by zero
\* saturates.
MagDiv(a, b) == IF b = ZeroMag THEN MagInf ELSE MagDivTop(a, b, TopLimb(b, NL))

\* Signed values; zero is never negative.
Fx(neg, mag) == [neg |-> neg /\ mag # ZeroMag, mag |-> mag]
FZero == [neg |-> FALSE, mag |-> <<0, 0, 0, 0, 0, 0>>]
FOne == [neg |-> FALSE, mag |-> <<0, 0, 0, 0, 1, 0>>]
IntMag(n) == <<0, 0, 0, 0, n % B, n \div B>>
FInt(n) == Fx(n < 0, IntMag(IF n < 0 THEN -n ELSE n))
FNeg(a) == Fx(~a.neg, a.mag)
FAbs(a) == [neg |-> FALSE, mag |-> a.mag]
\* a with the sign of -a when neg.
FSigned(neg, a) == Fx(neg # a.neg, a.mag)
\* a + b for a and b of opposite signs, ge telling |a| >= |b|.
FDiff(a, b, ge) ==
    Fx(IF ge THEN a.neg ELSE b.neg,
       MagSub(IF ge THEN a.mag ELSE b.mag, IF ge THEN b.mag ELSE a.mag, 1, 0))
FAdd(a, b) ==
    IF a.neg = b.neg THEN Fx(a.neg, MagAdd(a.mag, b.mag))
    ELSE FDiff(a, b, MagCmp(a.mag, b.mag, NL) >= 0)
FSub(a, b) == FAdd(a, FNeg(b))
FMul(a, b) == Fx(a.neg # b.neg, MagMul(a.mag, b.mag))
FDiv(a, b) == Fx(a.neg # b.neg, MagDiv(a.mag, b.mag))
FMulInt(a, k) == Fx(a.neg, Fit(MagMulSmall(a.mag, k), 1))
FDivInt(a, k) == Fx(a.neg, MagDivSmall(a.mag, k, NL, 0))
\* -1, 0, 1 as a < b, a = b, a > b.
FCmp(a, b) ==
    IF a.neg # b.neg THEN (IF a.neg THEN -1 ELSE 1)
    ELSE (IF a.neg THEN -1 ELSE 1) * MagCmp(a.mag, b.mag, NL)
FLt(a, b) == FCmp(a, b) < 0
FLe(a, b) == FCmp(a, b) <= 0
FGt(a, b) == FCmp(a, b) > 0
FIsFinite(a) == a.mag # MagInf

\* std::f64::consts::PI = 3.1415926535897932..., with 2 PI, PI/2 and PI/4.
PI == [neg |-> FALSE, mag |-> <<7932, 3589, 9265, 1415, 3, 0>>]
TwoPI == [neg |-> FALSE, mag |-> <<5864, 7179, 8530, 2831, 6, 0>>]
HalfPI == [neg |-> FALSE, mag |-> <<8966, 6794, 9632, 5707, 1, 0>>]
QuarterPI == [neg |-> FALSE, mag |-> <<4483, 3397, 9816, 7853, 0, 0>>]
MinusPI == [neg |-> TRUE, mag |-> <<7932, 3589, 9265, 1415, 3, 0>>]
MinusHalfPI == [neg |-> TRUE, mag |-> <<8966, 6794, 9632, 5707, 1, 0>>]

\* The whole part of a >= 0.
IntPart(a) == [neg |-> FALSE, mag |-> <<0, 0, 0, 0, a.mag[5], a.mag[6]>>]

\* a >= 0 less its whole turns: in [0, 2 PI).
RemTurns(a) == FSub(a, FMul(IntPart(FDiv(a, TwoPI)), TwoPI))

\* s in (-2 PI, 2 PI) brought into (-PI, PI].
WrapTurn(s) ==
    IF FGt(s, PI) THEN FSub(s, TwoPI)
    ELSE IF FLe(s, MinusPI) THEN FAdd(s, TwoPI)
    ELSE s

\* x brought into (-PI, PI] by a whole number of turns.
ReduceAngle(x) ==
    IF MagCmp(x.mag, PI.mag, NL) <= 0 /\ x # MinusPI THEN x
    ELSE WrapTurn(FSigned(x.neg, RemTurns(FAbs(x))))

\* a in (-PI, PI] reflected into [-PI/2, PI/2]: the sine is kept, the cosine
\* changes sign when Reflected(a).
Reflected(a) == FGt(a, HalfPI) \/ FLt(a, MinusHalfPI)
Reflect(a) ==
    IF FGt(a, HalfPI) THEN FSub(PI, a)
    ELSE IF FLt(a, MinusHalfPI) THEN FSub(MinusPI, a)
    ELSE a

\* The Taylor series sum of term, -term x^2/((k+1)(k+2)), ... until a term is 0.
RECURSIVE Series(_, _, _)
Series(term, x2, k) ==
    IF term = FZero THEN FZero
    ELSE FAdd(term, Series(FNeg(FDivInt(FMul(term, x2), (k + 1) * (k + 2))), x2, k + 2))

\* sin and cos for |x| <= PI/2.
SinSmall(x) == Series(x, FMul(x, x), 1)
CosSmall(x) == Series(FOne, FMul(x, x), 0)

SinReduced(a) == SinSmall(Reflect(a))
CosReduced(a) == FSigned(Reflected(a), CosSmall(Reflect(a)))

\* f64::sin
Sin(x) == SinReduced(ReduceAngle(x))

\* f64::cos
Cos(x) == CosReduced(ReduceAngle(x))

\* f64::sqrt, for a >= 0 (1.0 - ecc * ecc is at least 0.0199 for every
\* eccentricity the clamps allow; a negative argument, NaN in the code, is
\* outside the model and yields 0): Newton's iteration from above.
RECURSIVE SqrtFrom(_, _)
SqrtNext(a, x, y) == IF FLt(y, x) THEN SqrtFrom(a, y) ELSE x
SqrtFrom(a, x) == SqrtNext(a, x, FDivInt(FAdd(x, FDiv(a, x)), 2))

Sqrt(a) == IF a.neg \/ a = FZero THEN FZero
           ELSE SqrtFrom(a, IF FGt(a, FOne) THEN a ELSE FOne)

\* atan for |t| <= tan(PI/8): t - t^3/3 + t^5/5 - ..., p the current power.
RECURSIVE AtanSeries(_, _, _)
AtanSeries(p, t2, n) ==
    IF FDivInt(p, 2 * n + 1) = FZero THEN FZero
    ELSE FAdd(FDivInt(p, 2 * n + 1), AtanSeries(FNeg(FMul(p, t2)), t2, n + 1))

AtanSmall(t) == AtanSeries(t, FMul(t, t), 0)

\* tan(PI/8) = sqrt(2) - 1
TanPI8 == [neg |-> FALSE, mag |-> <<950, 6237, 2135, 4142, 0, 0>>]

\* atan for 0 <= t <= 1: atan t = PI/4 + atan((t - 1)/(t + 1)) above tan(PI/8).
AtanShift(t, above) ==
    FAdd(IF above THEN QuarterPI ELSE FZero,
         AtanSmall(IF above THEN FDiv(FSub(t, FOne), FAdd(t, FOne)) ELSE t))
Atan01(t) == AtanShift(t, FGt(t, TanPI8))

\* atan(ay / ax) for ay, ax >= 0, not both 0; le tells ay <= ax.
AtanOctant(ay, ax, le) ==
    FAdd(IF le THEN FZero ELSE HalfPI,
         FSigned(~le, Atan01(FDiv(IF le THEN ay ELSE ax, IF le THEN ax ELSE ay))))

\* The angle a of (|x|, |y|) taken to the quadrant of (x, y).
AtanQuadrant(a, xneg, yneg) ==
    FSigned(yneg, IF xneg THEN FSub(PI, a) ELSE a)

\* f64::atan2: y.atan2(x), in (-PI, PI].
Atan2(y, x) ==
    IF x = FZero /\ y = FZero THEN FZero
    ELSE AtanQuadrant(AtanOctant(FAbs(y), FAbs(x), MagCmp(y.mag, x.mag, NL) <= 0),
                      x.neg, y.neg)

\* ------------------------------------------------------------ f64 scale
\* Libration.scale is held bit for bit.  A non-negative f64 is
\* [inf |-> BOOLEAN, exp |-> e, man |-> m]: the value m * 2^e, the mantissa m
\* below 2^53 as four limbs in base B, at least 2^52 unless e = MinExp (a
\* subnormal, or 0.0 when m = 0); MaxExp is the exponent of the largest finite
\* values.
MinExp == -1074
MaxExp == 971
Two52 == <<496, 2737, 5996, 4503>>
Two53 == <<992, 5474, 1992, 9007>>
Two105 == <<2032, 257, 8945, 847, 334, 2073, 4819, 4056>>
F64Inf == [inf |-> TRUE, exp |-> 972, man |-> <<0, 0, 0, 0>>]

\* The literal 1.1 is the f64 Factor11 * 2^-52.
Factor11 == <<7546, 9010, 9595, 4953>>

\* The literal 100.0 = 7036874417766400 * 2^-46.
Hundred == [inf |-> FALSE, exp |-> -46, man |-> <<6400, 1776, 8744, 7036>>]

\* a with zero limbs added up to n limbs.
Pad(a, n) == a \o [i \in 1..(n - Len(a)) |-> 0]

\* Column k of the product of the naturals a and b.
RECURSIVE NatCol(_, _, _, _)
NatCol(a, b, k, i) ==
    IF i > Min(Len(a), k) THEN 0
    ELSE a[i] * b[k + 1 - i] + NatCol(a, b, k, i + 1)

\* The exact product, Len(a) + Len(b) limbs.
NatMul(a, b) ==
    Norm([k \in 1..(Len(a) + Len(b) - 1) |-> NatCol(a, b, k, Max(1, k + 1 - Len(b)))], 1, 0)

\* The whole part of n / d for a four-limb d whose highest limb is not 0,
\* five limbs.
NatDiv(n, d) ==
    SubSeq(LongDiv(MagMulSmall(n, B \div (d[4] + 1)),
                   MagMulSmall(Pad(d, NL), B \div (d[4] + 1)), 4, Len(n) + 1,
                   <<0, 0, 0, 0, 0, 0, 0>>), 1, 5)

\* -1, 0, 1 as the remainder n - q * d is below, equal to, above d / 2.
HalfCmp(n, d, q) ==
    MagCmp(MagMulSmall(MagSub(Pad(n, 9), NatMul(q, d), 1, 0), 2), Pad(d, 10), 10)

\* Round to nearest, ties to even (the f64 rounding): q or q + 1, c telling
\* where the remainder is against one half.
RoundNearestEven(q, c) ==
    SubSeq(IF c > 0 \/ (c = 0 /\ q[1] % 2 = 1)
           THEN Norm([q EXCEPT ![1] = @ + 1], 1, 0)
           ELSE q, 1, 4)

RoundQuot(n, d, q) == RoundNearestEven(q, HalfCmp(n, d, q))

\* n / d rounded to an integer.
RoundDiv(n, d) == RoundQuot(n, d, NatDiv(n, d))

\* The f64 of mantissa m and exponent e; beyond MaxExp it is infinity.
F64Fin(e, m) ==
    IF e > MaxExp THEN F64Inf ELSE [inf |-> FALSE, exp |-> e, man |-> m]

\* A mantissa that rounding took to 2^53 moves to the next exponent.
F64Norm(e, m) == IF m = Two53 THEN F64Fin(e + 1, Two52) ELSE F64Fin(e, m)

\* x * 1.1 from the exact product p of the mantissas.
ScaleUpFrom(e, p, big) ==
    F64Norm(IF big THEN e + 1 ELSE e, RoundDiv(p, IF big THEN Two53 ELSE Two52))
ScaleUpProd(e, p) == ScaleUpFrom(e, p, MagCmp(p, Two105, 8) >= 0)

\* self.scale *= 1.1
ScaleUp(x) == IF x.inf THEN x ELSE ScaleUpProd(x.exp, NatMul(x.man, Factor11))

\* x / 1.1; same tells that the quotient keeps the exponent of x.
ScaleDownFrom(x, same) ==
    F64Norm(IF same THEN x.exp ELSE x.exp - 1,
            RoundDiv(NatMul(x.man, IF same THEN Two52 ELSE Two53), Factor11))

\* x / 1.1 on a unit that flushes subnormal quotients to 0.0.
ScaleDownFlushing(x) ==
    IF x.inf THEN x
    ELSE IF x.exp = MinExp THEN [x EXCEPT !.man = <<0, 0, 0, 0>>]
    ELSE ScaleDownFrom(x, MagCmp(x.man, Factor11, 4) >= 0)

\* self.scale /= 1.1
ScaleDown(x) ==
    IF x.inf THEN x
    ELSE ScaleDownFrom(x, MagCmp(x.man, Factor11, 4) >= 0 \/ x.exp = MinExp)

\* x < y
F64Lt(x, y) ==
    IF x.inf THEN FALSE
    ELSE IF y.inf THEN TRUE
    ELSE x.exp < y.exp \/ (x.exp = y.exp /\ MagCmp(x.man, y.man, 4) < 0)

\* x > 0.0
F64Positive(x) == x.inf \/ x.man # <<0, 0, 0, 0>>

\* x after n Z presses, after n X presses.
RECURSIVE ScaleDownTimes(_, _)
ScaleDownTimes(x, n) == IF n = 0 THEN x ELSE ScaleDownTimes(ScaleDown(x), n - 1)
RECURSIVE ScaleUpTimes(_, _)
ScaleUpTimes(x, n) == IF n = 0 THEN x ELSE ScaleUpTimes(ScaleUp(x), n - 1)

\* The range of scale the events are followed in: MaxZoom presses either way.
ZoomFloor == ScaleDownTimes(Hundred, MaxZoom)
ZoomCeil == ScaleUpTimes(Hundred, MaxZoom)

\* The scales within that range that Z and X presses lead to from 100.0, and
\* the quotient and the product of each.
ZoomNext(S) ==
    S \cup {ScaleDown(x) : x \in {y \in S : F64Lt(ZoomFloor, y)}}
      \cup {ScaleUp(x) : x \in {y \in S : F64Lt(y, ZoomCeil)}}
RECURSIVE ZoomClosure(_)
ZoomClosure(S) == IF ZoomNext(S) = S THEN S ELSE ZoomClosure(ZoomNext(S))
ZoomRange == ZoomClosure({Hundred})
ZoomOutOf == [x \in ZoomRange |-> ScaleDown(x)]
ZoomInOf == [x \in ZoomRange |-> ScaleUp(x)]

\* --------------------------------------------------------------- new
\* No moon_pos call is under way.
KinIdle ==
    /\ pc = "idle"
    /\ mean_anomaly = FZero
    /\ ecc_anom = FZero
    /\ delta = FZero
    /\ iterations = 0
    /\ true_anom = FZero
    /\ r_den = FZero
    /\ r = FZero

\* No draw_moon_orbit call is under way.
OrbitIdle ==
    /\ sweep = "idle"
    /\ phi = FZero
    /\ old_point = [r |-> FZero, phi |-> FZero]
    /\ new_point = [r |-> FZero, phi |-> FZero]
    /\ segments = 0

Init ==
    /\ playing = FALSE
    /\ scale = Hundred
    /\ time = 0
    /\ period = 8
    /\ eccentricity = 0
    /\ last_tick = None
    /\ center_moon = FALSE
    /\ now = 0
    /\ ticksInRun = 0
    /\ dropped = 0
    /\ streak = [key |-> "none", n |-> 0]
    /\ KinIdle
    /\ OrbitIdle

\* ------------------------------------------------------- Application::update
\* (now - last_tick).as_millis(): whole milliseconds, truncated.
as_millis(d) == d \div ClockPerMs

\* What as_millis leaves out of a duration, and the sum of it over the Ticks
\* of the Playing run once this Tick is handled.
Dropped(d) == d - ClockPerMs * as_millis(d)
DroppedNext ==
    IF playing /\ last_tick.some
    THEN dropped + Dropped(now - last_tick.at)
    ELSE dropped

\* The wrap as `if self.time > 1.0 { self.time -= 1.0 }`.
WrapPhaseOnce(t) == IF t > One THEN t - One ELSE t

\* The wrap as `while self.time > 0.0 { self.time -= 1.0 }`.
RECURSIVE WrapPhaseAtZero(_)
WrapPhaseAtZero(t) == IF t > 0 THEN WrapPhaseAtZero(t - One) ELSE t

\* while self.time > 1.0 { self.time -= 1.0 }
RECURSIVE WrapPhase(_)
WrapPhase(t) == IF t > One THEN WrapPhase(t - One) ELSE t

\* The Tick handler with the `if self.playing` guard of its arm left out.
TickUnguarded ==
    /\ time' = IF last_tick.some
               THEN WrapPhase(time + as_millis(now - last_tick.at))
               ELSE time
    /\ last_tick' = Some(now)
    /\ ticksInRun' = IF ticksInRun < 2 THEN ticksInRun + 1 ELSE 2
    /\ dropped' = DroppedNext
    /\ UNCHANGED <<playing, scale, period, eccentricity, center_moon, now, streak, kin, orbit>>

\* The Tick handler refusing the message while paused instead of ignoring it.
TickRefusedWhenPaused ==
    /\ playing
    /\ time' = IF last_tick.some
               THEN WrapPhase(time + as_millis(now - last_tick.at))
               ELSE time
    /\ last_tick' = Some(now)
    /\ ticksInRun' = IF ticksInRun < 2 THEN ticksInRun + 1 ELSE 2
    /\ dropped' = DroppedNext
    /\ UNCHANGED <<playing, scale, period, eccentricity, center_moon, now, streak, kin, orbit>>

\* Message::Tick: the arm is guarded by self.playing; `_ => ()` otherwise.
Tick ==
    /\ IF playing
       THEN /\ time' = IF last_tick.some
                       THEN WrapPhase(time + as_millis(now - last_tick.at))
                       ELSE time
            /\ last_tick' = Some(now)
       ELSE UNCHANGED <<time, last_tick>>
    /\ ticksInRun' = IF ticksInRun < 2 THEN ticksInRun + 1 ELSE 2
    /\ dropped' = DroppedNext
    /\ UNCHANGED <<playing, scale, period, eccentricity, center_moon, now, streak, kin, orbit>>

\* ----------------------------------------------------------- Program::update
\* The Space handler without `self.last_tick = None`.
KeySpaceKeepsBaseline ==
    /\ playing' = ~playing
    /\ ticksInRun' = 0
    /\ dropped' = 0
    /\ UNCHANGED <<scale, time, period, eccentricity, last_tick, center_moon, now, streak, kin, orbit>>

\* The Space handler clearing last_tick on the way to Playing instead.
KeySpaceClearsOnResume ==
    /\ playing' = ~playing
    /\ last_tick' = IF playing' THEN None ELSE last_tick
    /\ ticksInRun' = 0
    /\ dropped' = 0
    /\ UNCHANGED <<scale, time, period, eccentricity, center_moon, now, streak, kin, orbit>>

\* KeyCode::Space: self.playing = !self.playing; if !self.playing { self.last_tick = None }
KeySpace ==
    /\ playing' = ~playing
    /\ last_tick' = IF ~playing' THEN None ELSE last_tick
    /\ ticksInRun' = 0
    /\ dropped' = 0
    /\ UNCHANGED <<scale, time, period, eccentricity, center_moon, now, streak, kin, orbit>>

\* The E step without its clamp.
PressENoClamp(e) == e + 10

\* The E step clamping at 1.0.
PressEClampOne(e) == IF e + 10 > 100 THEN 100 ELSE e + 10

\* self.eccentricity += 0.1; if self.eccentricity > 0.99 { = 0.99 }
PressE(e) == IF e + 10 > 99 THEN 99 ELSE e + 10

\* The Q step without its clamp.
PressQNoClamp(e) == e - 10

\* self.eccentricity -= 0.1; if self.eccentricity < 0.0 { = 0.0 }
PressQ(e) == IF e - 10 < 0 THEN 0 ELSE e - 10

\* History of successive presses: a run of E presses that began at eccentricity 0.0,
\* or a run of Q presses that began at 0.99, and its length (capped at MaxStreak).
StreakStart(key) == IF key = "E" THEN 0 ELSE 99

Streak(key) ==
    IF streak.key = key
    THEN [streak EXCEPT !.n = IF @ < MaxStreak THEN @ + 1 ELSE MaxStreak]
    ELSE IF eccentricity = StreakStart(key)
         THEN [key |-> key, n |-> 1]
         ELSE [key |-> "none", n |-> 0]

KeyE ==
    /\ eccentricity' = PressE(eccentricity)
    /\ streak' = Streak("E")
    /\ UNCHANGED <<playing, scale, time, period, last_tick, center_moon, now, ticksInRun, dropped, kin, orbit>>

KeyQ ==
    /\ eccentricity' = PressQ(eccentricity)
    /\ streak' = Streak("Q")
    /\ UNCHANGED <<playing, scale, time, period, last_tick, center_moon, now, ticksInRun, dropped, kin, orbit>>

\* self.scale /= 1.1
KeyZ ==
    /\ F64Lt(ZoomFloor, scale)
    /\ scale' = ZoomOutOf[scale]
    /\ UNCHANGED <<playing, time, period, eccentricity, last_tick, center_moon, now,
                   ticksInRun, dropped, streak, kin, orbit>>

\* self.scale *= 1.1
KeyX ==
    /\ F64Lt(scale, ZoomCeil)
    /\ scale' = ZoomInOf[scale]
    /\ UNCHANGED <<playing, time, period, eccentricity, last_tick, center_moon, now,
                   ticksInRun, dropped, streak, kin, orbit>>

\* The C handler toggling playing as well.
KeyCTogglesPlaying ==
    /\ center_moon' = ~center_moon
    /\ playing' = ~playing
    /\ UNCHANGED <<scale, time, period, eccentricity, last_tick, now,
                   ticksInRun, dropped, streak, kin, orbit>>

\* KeyCode::C: self.center_moon = !self.center_moon
KeyC ==
    /\ center_moon' = ~center_moon
    /\ UNCHANGED <<playing, scale, time, period, eccentricity, last_tick, now,
                   ticksInRun, dropped, streak, kin, orbit>>

\* `_ => ()`: every other canvas event (mouse, other keys, key releases).
OtherEvent ==
    UNCHANGED vars

\* ------------------------------------------------------------- Libration::r
MOON_ORBIT_RADIUS == 40

\* self.eccentricity and self.time as f64 values.
EccF(e) == FDivInt(FInt(e), 100)
TimeF(t) == FDivInt(FInt(t), One)

\* The denominator grouped as (1.0 + self.eccentricity) * phi.cos().
RDenMisgrouped(e, ang) == FMul(FAdd(FOne, EccF(e)), Cos(ang))

\* 1.0 + self.eccentricity * phi.cos()
RDen(e, ang) == FAdd(FOne, FMul(EccF(e), Cos(ang)))

\* fn r(&self, p, phi): p / (1.0 + self.eccentricity * phi.cos())
R(e, p, ang) == FDiv(p, RDen(e, ang))

\* ------------------------------------------------------ Libration::moon_pos
\* The loop's tolerance, 1e-10.
Tol == Fx(FALSE, <<0, 100, 0, 0, 0, 0>>)

\* The mean anomaly without the step that brings it below PI.
MeanAnomalyUnreduced(t) == FMul(FMulInt(TimeF(t), 2), PI)

\* The mean anomaly with the test `mean_anomaly >= PI`.
MeanAnomalyInclusive(t) ==
    IF FLt(MeanAnomalyUnreduced(t), PI) THEN MeanAnomalyUnreduced(t)
    ELSE FSub(MeanAnomalyUnreduced(t), TwoPI)

\* let mut mean_anomaly = self.time * 2.0 * PI;
\* if mean_anomaly > PI { mean_anomaly -= 2.0 * PI; }
MeanAnomaly(t) ==
    LET m == FMul(FMulInt(TimeF(t), 2), PI)
    IN IF FGt(m, PI) THEN FSub(m, TwoPI) ELSE m

\* let f = |ecc_anom| ecc_anom - ecc * ecc_anom.sin() - mean_anomaly;
KeplerF(e, ea, m) == FSub(FSub(ea, FMul(EccF(e), Sin(ea))), m)

\* let df = |ecc_anom| 1.0 - ecc * ecc_anom.cos();
KeplerDF(e, ea) == FSub(FOne, FMul(EccF(e), Cos(ea)))

\* f(ecc_anom) / df(ecc_anom)
NewtonDelta(e, ea, m) == FDiv(KeplerF(e, ea, m), KeplerDF(e, ea))

\* The while test without .abs().
LoopTestSigned(d) == FGt(d, Tol)

\* The while test: (f(ecc_anom) / df(ecc_anom)).abs() > 1e-10
LoopTest(d) == FGt(FAbs(d), Tol)

\* ((1.0 - ecc * ecc).sqrt() * ecc_anom.sin()).atan2(ecc_anom.cos() - ecc)
TrueAnom(e, ea) ==
    Atan2(FMul(Sqrt(FSub(FOne, FMul(EccF(e), EccF(e)))), Sin(ea)),
          FSub(Cos(ea), EccF(e)))

\* moon_pos up to the first while test.
MoonPosBegin ==
    /\ pc = "idle"
    /\ mean_anomaly' = MeanAnomaly(time)
    /\ ecc_anom' = mean_anomaly'
    /\ delta' = NewtonDelta(eccentricity, ecc_anom', mean_anomaly')
    /\ iterations' = 0
    /\ pc' = "loop"
    /\ UNCHANGED <<true_anom, r_den, r, libration, events, orbit>>

\* One execution of the while body, and the test that follows it.
NewtonStep ==
    /\ pc = "loop"
    /\ LoopTest(delta)
    /\ iterations < MaxIter
    /\ ecc_anom' = FSub(ecc_anom, delta)
    /\ delta' = NewtonDelta(eccentricity, ecc_anom', mean_anomaly)
    /\ iterations' = iterations + 1
    /\ UNCHANGED <<pc, mean_anomaly, true_anom, r_den, r, libration, events, orbit>>

\* The loop is left: true_anom and r.  (The (f32, f32) that rphi_to_xy
\* makes of them is not modelled.)
MoonPosEnd ==
    /\ pc = "loop"
    /\ ~LoopTest(delta)
    /\ true_anom' = TrueAnom(eccentricity, ecc_anom)
    /\ r_den' = RDen(eccentricity, true_anom')
    /\ r' = R(eccentricity, FInt(MOON_ORBIT_RADIUS), true_anom')
    /\ pc' = "done"
    /\ UNCHANGED <<mean_anomaly, ecc_anom, delta, iterations, libration, events, orbit>>

\* The eccentricities the E and Q keys reach from 0.0.
RECURSIVE Reach(_, _)
Reach(S, n) ==
    IF n = 0 THEN S
    ELSE Reach(S \cup {PressE(e) : e \in S} \cup {PressQ(e) : e \in S}, n - 1)

EccReach == Reach({0}, MaxStreak)

\* Phases a call is made at: a grid over the cycle, with 0.45, 0.5 and 1.0.
PhaseSamples ==
    {k * (One \div NumPhases) : k \in 0..NumPhases}
        \cup {(9 * One) \div 20, One \div 2, One}

\* moon_pos called (by draw) in a state the events have led to.
InitKepler ==
    /\ playing = FALSE
    /\ scale = Hundred
    /\ period = 8
    /\ time \in PhaseSamples
    /\ eccentricity \in EccReach
    /\ last_tick = None
    /\ center_moon = FALSE
    /\ now = 0
    /\ ticksInRun = 0
    /\ dropped = 0
    /\ streak = [key |-> "none", n |-> 0]
    /\ KinIdle
    /\ OrbitIdle

NextKepler ==
    \/ MoonPosBegin
    \/ NewtonStep
    \/ MoonPosEnd

SpecKepler == InitKepler /\ [][NextKepler]_vars

\* ------------------------------------------------- Libration::draw_moon_orbit
\* The step of the sweep, 0.01.  (The f64 sum of 0.01s is off its decimal
\* value by less than 1e-12 over the sweep, far from deciding phi < 2 PI.)
PhiStep == [neg |-> FALSE, mag |-> <<0, 0, 0, 100, 0, 0>>]

\* A point of the path: self.r(MOON_ORBIT_RADIUS, phi) at phi.  (The
\* (f32, f32) that rphi_to_xy makes of it is not modelled.)
OrbitPoint(e, a) == [r |-> R(e, FInt(MOON_ORBIT_RADIUS), a), phi |-> a]

\* let mut phi = 0.0;
OrbitBegin ==
    /\ sweep = "idle"
    /\ sweep' = "loop"
    /\ phi' = FZero
    /\ segments' = 0
    /\ UNCHANGED <<old_point, new_point, libration, events, kin>>

\* One execution of the while body: while phi < 2.0 * PI { ... }
OrbitSegment ==
    /\ sweep = "loop"
    /\ FLt(phi, TwoPI)
    /\ old_point' = OrbitPoint(eccentricity, phi)
    /\ phi' = FAdd(phi, PhiStep)
    /\ new_point' = OrbitPoint(eccentricity, phi')
    /\ segments' = segments + 1
    /\ UNCHANGED <<sweep, libration, events, kin>>

\* The while test fails: the sweep is over.
OrbitEnd ==
    /\ sweep = "loop"
    /\ ~FLt(phi, TwoPI)
    /\ sweep' = "done"
    /\ UNCHANGED <<phi, old_point, new_point, segments, libration, events, kin>>

\* Eccentricities a sweep is followed at: both clamp values and two between.
SweepEcc == {e \in EccReach : e \in {0, 10, 50, 99}}

\* draw_moon_orbit called (by draw) in a state the events have led to.
InitOrbit ==
    /\ playing = FALSE
    /\ scale = Hundred
    /\ period = 8
    /\ time = 0
    /\ eccentricity \in SweepEcc
    /\ last_tick = None
    /\ center_moon = FALSE
    /\ now = 0
    /\ ticksInRun = 0
    /\ dropped = 0
    /\ streak = [key |-> "none", n |-> 0]
    /\ KinIdle
    /\ OrbitIdle

NextOrbit ==
    \/ OrbitBegin
    \/ OrbitSegment
    \/ OrbitEnd

SpecOrbit == InitOrbit /\ [][NextOrbit]_vars

\* ------------------------------------------------------------- long zooms
\* Runs of Z presses and of X presses to the ends of the f64 range.  Away from
\* the initial scale a press is followed when it leads further away, and
\* presses the other way are followed again at the ends: among the smallest
\* subnormals and at infinity.
IsTiny(x) ==
    /\ ~x.inf
    /\ x.exp = MinExp
    /\ x.man[1] <= MaxTiny
    /\ SubSeq(x.man, 2, 4) = <<0, 0, 0>>

\* KeyCode::Z at or below the initial scale, or at infinity.
ZoomOutRun ==
    /\ ~F64Lt(Hundred, scale) \/ scale.inf
    /\ scale' = ScaleDown(scale)
    /\ UNCHANGED <<playing, time, period, eccentricity, last_tick, center_moon, now,
                   ticksInRun, dropped, streak, kin, orbit>>

\* KeyCode::X at or above the initial scale, or at a tiny scale.
ZoomInRun ==
    /\ ~F64Lt(scale, Hundred) \/ IsTiny(scale)
    /\ scale' = ScaleUp(scale)
    /\ UNCHANGED <<playing, time, period, eccentricity, last_tick, center_moon, now,
                   ticksInRun, dropped, streak, kin, orbit>>

NextScale ==
    \/ ZoomOutRun
    \/ ZoomInRun

SpecScale == Init /\ [][NextScale]_vars

\* ------------------------------------------------------------- environment
\* Wall-clock time passes between two events.
Advance ==
    /\ \E dt \in DtSet :
          /\ now + dt <= MaxClock
          /\ now' = now + dt
    /\ UNCHANGED <<playing, scale, time, period, eccentricity, last_tick, center_moon,
                   ticksInRun, dropped, streak, kin, orbit>>

Next ==
    \/ Tick
    \/ KeySpace
    \/ KeyE
    \/ KeyQ
    \/ KeyZ
    \/ KeyX
    \/ KeyC
    \/ OtherEvent
    \/ Advance

Spec == Init /\ [][Next]_vars

\* ------------------------------------------------------------------ claims
\* C1: in every reachable state the phase lies in [0, 1): it is never equal to
\* or greater than 1.0.
C1_PhaseInUnitInterval ==
    time >= 0 /\ time < One

\* C2: the first Tick handled in a Playing run (none handled since the Space
\* press that resumed) leaves the phase unchanged, whatever wall-clock time
\* has passed; each later Tick of the run adds the milliseconds elapsed since
\* the Tick before it, wrapped.
C2_FirstTickAfterResume ==
    [][(Tick /\ playing) =>
          IF ticksInRun = 0
          THEN time' = time
          ELSE time' = WrapPhase(time + as_millis(now - last_tick.at))]_vars

\* C2 happens: the phase was advanced by an earlier Playing run, and the first
\* Tick after a later Space press to Playing has been handled.
C2_Witness ==
    playing /\ ticksInRun = 1 /\ time > 0 /\ last_tick = Some(now)

\* C3: 0.0 <= eccentricity <= 0.99 in every reachable state; 1.0 is never
\* reached.
C3_EccentricityRange ==
    eccentricity >= 0 /\ eccentricity <= 99 /\ eccentricity < 100

\* C3 happens: the upper clamp has acted.
C3_Witness ==
    eccentricity = 99 /\ streak.key = "E" /\ streak.n > 10

\* C4: MaxStreak successive E presses from eccentricity 0 end at exactly 0.99
\* and a further E press at 0.99 leaves 0.99; MaxStreak successive Q presses
\* from 0.99 end at exactly 0.0 and a further Q press at 0.0 leaves 0.0.
C4_ClampPlateaus ==
    [][/\ (streak'.key = "E" /\ streak'.n = MaxStreak) => eccentricity' = 99
       /\ (streak'.key = "Q" /\ streak'.n = MaxStreak) => eccentricity' = 0
       /\ (KeyE /\ eccentricity = 99) => eccentricity' = 99
       /\ (KeyQ /\ eccentricity = 0) => eccentricity' = 0]_vars

\* C4 happens: MaxStreak successive Q presses from the 0.99 plateau are done.
C4_Witness ==
    streak.key = "Q" /\ streak.n = MaxStreak /\ eccentricity = 0

\* C5: a Tick handled while paused changes no field of Libration.
C5_PausedTickNoOp ==
    [][(Tick /\ ~playing) => UNCHANGED libration]_vars

\* C5 happens: a Tick has been handled since the Space press that paused a
\* run which had advanced the phase.
C5_Witness ==
    ~playing /\ ticksInRun >= 1 /\ time > 0 /\ now > 0

\* C6: in every reachable state, Paused or Playing, every event has a
\* successor state (Z and X within the zoom range explored).
C6_Total ==
    /\ ENABLED Tick
    /\ ENABLED KeySpace
    /\ ENABLED KeyE
    /\ ENABLED KeyQ
    /\ ENABLED KeyC
    /\ ENABLED OtherEvent
    /\ F64Lt(ZoomFloor, scale) => ENABLED KeyZ
    /\ F64Lt(scale, ZoomCeil) => ENABLED KeyX

\* C6 happens: a paused state that Ticks, Space, E, X and C have led to.
C6_Witness ==
    /\ ~playing /\ ticksInRun = 2 /\ time > 0
    /\ eccentricity = 99 /\ scale = ZoomCeil /\ center_moon

\* C7: the Newton loop's body is executed a small bounded number of times (at
\* most 10) for every eccentricity and phase.
C7_FewIterations ==
    iterations <= 10

\* |E - e sin E - M| at the point the call is at.
Residual == FAbs(KeplerF(eccentricity, ecc_anom, mean_anomaly))

C9_RadiusPositiveFinite ==
    pc = "done" =>
        /\ FLe(FSub(FOne, EccF(eccentricity)), r_den)
        /\ FLe(EccF(1), r_den)
        /\ FGt(r, FZero)
        /\ FIsFinite(r)

\* C9 happens: the radius at periapsis distance 1 - e for e = 0.99.
C9_Witness ==
    pc = "done" /\ eccentricity = 99 /\ r_den = EccF(1)

\* C10: at eccentricity 0 the loop's body is never executed, the eccentric
\* anomaly is the mean anomaly, and the true anomaly is the mean anomaly
\* within 1e-8.
C10_CircularIdentity ==
    (eccentricity = 0 /\ pc = "done") =>
        /\ iterations = 0
        /\ ecc_anom = mean_anomaly
        /\ FLe(FAbs(FSub(true_anom, mean_anomaly)), FMulInt(Tol, 100))

\* C10 happens: a call at eccentricity 0 whose mean anomaly was brought below
\* PI by the subtraction of 2 PI.
C10_Witness ==
    eccentricity = 0 /\ pc = "done" /\ time > One \div 2 /\ mean_anomaly.neg

\* C11: at eccentricity 0 every point the sweep samples has the radius
\* MOON_ORBIT_RADIUS.
C11_CircleAtZero ==
    (eccentricity = 0 /\ segments > 0) =>
        /\ old_point.r = FInt(MOON_ORBIT_RADIUS)
        /\ new_point.r = FInt(MOON_ORBIT_RADIUS)

\* C11 happens: the sweep at eccentricity 0 is over, past the angle PI.
C11_Witness ==
    eccentricity = 0 /\ sweep = "done" /\ segments > 314

\* C12: scale is strictly greater than 0 in every reachable state.
C12_ScalePositive ==
    F64Positive(scale)

\* C12 happens: Z presses have taken scale to the subnormal it can no
\* longer leave downwards (5 * 2^-1074).
C12_Witness ==
    /\ ~scale.inf /\ scale.exp = MinExp /\ IsTiny(scale)
    /\ ScaleDown(scale) = scale

\* C13: last_tick is None whenever the simulation is paused, and in Playing
\* until the first Tick after the Space press is handled.
C13_NoBaselineWhilePaused ==
    /\ ~playing => last_tick = None
    /\ (playing /\ ticksInRun = 0) => last_tick = None

\* C13 happens: paused again after a Playing run that had a baseline and
\* advanced the phase, a Tick handled since.
C13_Witness ==
    ~playing /\ last_tick = None /\ time > 0 /\ ticksInRun = 1

\* The most whole periods one elapsed duration holds, and one more.
MaxWraps == (MaxClock \div ClockPerMs) \div One + 1

C15_RunAdvanceExact ==
    (playing /\ last_tick.some) => dropped % (One * ClockPerMs) = 0

\* C16: the phase is never negative.
C16_PhaseNonNegative ==
    time >= 0

\* C16 happens: the wrap loop has subtracted from a phase that a Tick had
\* taken above 1.0.
C16_Witness ==
    playing /\ last_tick = Some(now) /\ time = 2000 /\ ticksInRun = 2

\* C17: the mean anomaly moon_pos uses lies in (-PI, PI].
C17_MeanAnomalyRange ==
    pc # "idle" => FLt(MinusPI, mean_anomaly) /\ FLe(mean_anomaly, PI)

\* C17 happens: the call at phase 1.0, where 2 PI is brought to 0.
C17_Witness ==
    pc = "done" /\ time = One /\ mean_anomaly = FZero

\* C18: every angle the sweep samples, the end point of the last segment
\* included, lies within 0 to 2 PI, and each segment ends at the angle the
\* next one starts at.
C18_SweepWithinRange ==
    segments > 0 =>
        /\ ~old_point.phi.neg /\ FLe(old_point.phi, TwoPI)
        /\ ~new_point.phi.neg /\ FLe(new_point.phi, TwoPI)
        /\ new_point.phi = phi

\* C19: E and Q change only eccentricity, Z and X only scale, C only
\* center_moon, Space only playing, clearing last_tick when the result is
\* Paused; another input event changes nothing.
C19_KeyFrames ==
    [][/\ (KeyE \/ KeyQ) =>
             UNCHANGED <<playing, scale, time, period, last_tick, center_moon>>
       /\ (KeyZ \/ KeyX) =>
             UNCHANGED <<playing, time, period, eccentricity, last_tick, center_moon>>
       /\ KeyC =>
             /\ center_moon' = ~center_moon
             /\ UNCHANGED <<playing, scale, time, period, eccentricity, last_tick>>
       /\ KeySpace =>
             /\ playing' = ~playing
             /\ last_tick' = IF playing' THEN last_tick ELSE None
             /\ UNCHANGED <<scale, time, period, eccentricity, center_moon>>
       /\ OtherEvent => UNCHANGED libration]_vars

\* C19 happens: Space, E, Q, X and C have all been handled.
C19_Witness ==
    /\ playing /\ time > 0 /\ center_moon
    /\ eccentricity = 89 /\ scale = ZoomCeil

====
